---- MODULE Spec2Model ----
(***************************************************************************)
(* FunctionMaxima<A, V> (function_maxima.h): a partial function A -> V     *)
(* kept in a multiset ordered by argument (function) together with the     *)
(* multiset of its local maxima ordered by (value descending, argument     *)
(* ascending) (maxima).                                                    *)
(*                                                                         *)
(* A and V are modelled as 1..MaxArg and 1..MaxVal with the usual <.       *)
(* A point is the record [arg, val].  An iterator of function is a         *)
(* position 1..Len(function), end() is Len(function) + 1.  An iterator of  *)
(* maxima is the entry it designates, mx_end() is MxEnd; erasing through   *)
(* such an iterator removes one entry equal to it, which gives the same    *)
(* listing whichever of several equal entries the iterator designates.     *)
(*                                                                         *)
(* Every public call is a run of steps, one per statement that can throw,  *)
(* so that an exception can be raised between any two of them.             *)
(***************************************************************************)
EXTENDS Integers, Sequences, FiniteSets

MaxArg == 4
MaxVal == 2
MaxAllocFail == 1
MaxCopyArg == 2
MaxCopyVal == 2
MaxPoints == 4

Args == 1..MaxArg
Vals == 1..MaxVal

\* the arguments and values used when two objects are in play
CopyArgs == 1..MaxCopyArg
CopyVals == 1..MaxCopyVal

VARIABLES
    function,         \* func_t function: points in argument order
    maxima,           \* maxima_t maxima: points in comp_by_maxima order
    pc,               \* position of the running call, "idle" between calls
    op,               \* the running (or last) public call
    a, v,             \* its parameters (v = 0 when it has none)
    it, prev_it,      \* set_value / erase locals: iterators of function
    prev_max_it,      \* set_value local: iterator of maxima
    max_it,           \* erase local: iterator of maxima
    diff,             \* set_value local
    maxima_rollback,  \* std::vector<mx_iterator> maxima_rollback
    omit_it, cpy_it,  \* update_maxima parameter and local
    left, right,      \* update_maxima locals
    side,             \* which call of stopped_being_maximum is running
    res,              \* stopped_being_maximum local
    exc,              \* exception in flight: "none", "cmp" or "alloc"
    outcome,          \* how the last call ended: "ok", "InvalidArg", "cmp", "alloc"
    ret,              \* value returned by the last value_at (0: none)
    pre_function,     \* point listing when the running (or last) call began
    pre_maxima,       \* maxima listing when the running (or last) call began
    last_set,         \* per argument, the value last set and not erased (0: none)
    nAllocFail,       \* allocation failures inside set_value and erase so far
    peer_function,    \* function of a second object, the source or the result of a copy
    peer_maxima,      \* maxima of that object
    peer_last_set,    \* last_set of that object
    temp_fun,         \* operator= local; the function member of an object under construction
    temp_max,         \* operator= local
    is_max,           \* value returned by a direct call of is_local_maximum
    round_trip        \* the state before set_value(a, v) on an absent a, while the next call is erase(a)

store  == <<function, maxima>>
call   == <<op, a, v, pre_function, pre_maxima>>
locals == <<it, prev_it, prev_max_it, max_it, diff, maxima_rollback,
            omit_it, cpy_it, left, right, side, res>>
ghost  == <<outcome, ret, last_set>>
peer   == <<peer_function, peer_maxima, peer_last_set>>
aux    == <<peer_function, peer_maxima, peer_last_set, temp_fun, temp_max, is_max, round_trip>>
vars   == <<function, maxima, pc, op, a, v, it, prev_it, prev_max_it, max_it,
            diff, maxima_rollback, omit_it, cpy_it, left, right, side, res,
            exc, outcome, ret, pre_function, pre_maxima, last_set, nAllocFail,
            peer_function, peer_maxima, peer_last_set, temp_fun, temp_max, is_max,
            round_trip>>

point(pa, pv) == [arg |-> pa, val |-> pv]

Points == [arg : Args, val : Vals]

MxEnd == [arg |-> 0, val |-> 0]

NoTrip == [valid |-> FALSE, f |-> <<>>, m |-> <<>>]

(***************************************************************************)
(* The two orders.                                                         *)
(***************************************************************************)
comp_by_arg(p1, p2) == p1.arg < p2.arg

\* mutant: the order looks at the value alone
comp_by_value(p1, p2) == p2.val < p1.val

comp_by_maxima(p1, p2) ==
    p2.val < p1.val \/ (~(p1.val < p2.val) /\ p1.arg < p2.arg)

(***************************************************************************)
(* std::multiset operations used by the class.                             *)
(***************************************************************************)
InsertAt(s, i, x) == SubSeq(s, 1, i - 1) \o <<x>> \o SubSeq(s, i, Len(s))

RemoveAt(s, i) == SubSeq(s, 1, i - 1) \o SubSeq(s, i + 1, Len(s))

end(f) == Len(f) + 1

\* function.lower_bound(a): the first point whose argument is not less than k
lower_bound(f, k) ==
    CHOOSE i \in 1..end(f) :
        /\ \A j \in 1..(i - 1) : f[j].arg < k
        /\ (i = end(f) \/ ~(f[i].arg < k))

\* mutant: the lower bound is returned without the equivalence test
find_lower_bound_only(f, k) == lower_bound(f, k)

\* function.find(a): the lower bound when it is not greater than k, else end()
find(f, k) ==
    LET i == lower_bound(f, k)
    IN  IF i # end(f) /\ ~(k < f[i].arg) THEN i ELSE end(f)

\* mutant: the hint is ignored, the point goes after its equivalents
function_insert_pos_no_hint(f, hint, p) ==
    CHOOSE i \in 1..end(f) :
        /\ \A j \in 1..(i - 1) : ~comp_by_arg(p, f[j])
        /\ (i = end(f) \/ comp_by_arg(p, f[i]))

\* function.insert(hint, p): as close as possible to just before hint
function_insert_pos(f, hint, p) ==
    IF /\ (hint = 1 \/ ~comp_by_arg(p, f[hint - 1]))
       /\ (hint = end(f) \/ ~comp_by_arg(f[hint], p))
    THEN hint
    ELSE CHOOSE i \in 1..end(f) :
             /\ \A j \in 1..(i - 1) : ~comp_by_arg(p, f[j])
             /\ (i = end(f) \/ comp_by_arg(p, f[i]))

\* maxima.insert(p): after every entry that is not ordered after p
maxima_insert(m, p) ==
    LET i == CHOOSE k \in 1..(Len(m) + 1) :
                 /\ \A j \in 1..(k - 1) : ~comp_by_maxima(p, m[j])
                 /\ (k = Len(m) + 1 \/ comp_by_maxima(p, m[k]))
    IN  InsertAt(m, i, p)

\* maxima.find(p): an entry equivalent to p under comp_by_maxima, else mx_end()
maxima_find(m, p) ==
    LET i == CHOOSE k \in 1..(Len(m) + 1) :
                 /\ \A j \in 1..(k - 1) : comp_by_maxima(m[j], p)
                 /\ (k = Len(m) + 1 \/ ~comp_by_maxima(m[k], p))
    IN  IF i # Len(m) + 1 /\ ~comp_by_maxima(p, m[i]) THEN m[i] ELSE MxEnd

\* maxima.erase(iterator)
maxima_erase(m, mx) ==
    LET i == CHOOSE k \in 1..Len(m) : m[k] = mx /\ \A j \in 1..(k - 1) : m[j] # mx
    IN  RemoveAt(m, i)

RECURSIVE erase_all(_, _)
\* for (const auto &iter : maxima_rollback) maxima.erase(iter);
erase_all(m, log) ==
    IF log = <<>> THEN m ELSE erase_all(maxima_erase(m, Head(log)), Tail(log))

(***************************************************************************)
(* is_local_maximum(it, omit_it)                                           *)
(***************************************************************************)
\* mutant: a neighbour of equal value defeats the point (<= for <)
is_local_maximum_strict(f, i, o) ==
    LET leftOK ==
            IF i # 1
            THEN IF i - 1 # o
                 THEN ~(f[i].val <= f[i - 1].val)
                 ELSE IF i - 1 # 1 THEN ~(f[i].val <= f[i - 2].val) ELSE TRUE
            ELSE TRUE
        rightOK ==
            IF i + 1 # end(f)
            THEN IF i + 1 # o
                 THEN ~(f[i].val <= f[i + 1].val)
                 ELSE IF i + 2 # end(f) THEN ~(f[i].val <= f[i + 2].val) ELSE TRUE
            ELSE TRUE
    IN  IF i = o THEN FALSE ELSE leftOK /\ rightOK

\* mutant: the omitted neighbour is compared like any other point
is_local_maximum_no_omission(f, i, o) ==
    LET leftOK  == IF i # 1 THEN ~(f[i].val < f[i - 1].val) ELSE TRUE
        rightOK == IF i + 1 # end(f) THEN ~(f[i].val < f[i + 1].val) ELSE TRUE
    IN  IF i = o THEN FALSE ELSE leftOK /\ rightOK

is_local_maximum(f, i, o) ==
    LET leftOK ==
            IF i # 1
            THEN IF i - 1 # o
                 THEN ~(f[i].val < f[i - 1].val)
                 ELSE IF i - 1 # 1 THEN ~(f[i].val < f[i - 2].val) ELSE TRUE
            ELSE TRUE
        rightOK ==
            IF i + 1 # end(f)
            THEN IF i + 1 # o
                 THEN ~(f[i].val < f[i + 1].val)
                 ELSE IF i + 2 # end(f) THEN ~(f[i].val < f[i + 2].val) ELSE TRUE
            ELSE TRUE
    IN  IF i = o THEN FALSE ELSE leftOK /\ rightOK

\* is_local_maximum(it, omit_it) evaluates at least one comparison on V
ilm_compares(f, i, o) ==
    /\ i # o
    /\ \/ (i # 1 /\ (i - 1 # o \/ i - 1 # 1))
       \/ (i + 1 # end(f) /\ (i + 1 # o \/ i + 2 # end(f)))

(***************************************************************************)
(* Initial state: FunctionMaxima() = default                               *)
(***************************************************************************)
Init ==
    /\ function = <<>>
    /\ maxima = <<>>
    /\ pc = "idle"
    /\ op = "none"
    /\ a = 0
    /\ v = 0
    /\ it = 0
    /\ prev_it = 0
    /\ prev_max_it = MxEnd
    /\ max_it = MxEnd
    /\ diff = FALSE
    /\ maxima_rollback = <<>>
    /\ omit_it = 0
    /\ cpy_it = 0
    /\ left = MxEnd
    /\ right = MxEnd
    /\ side = "none"
    /\ res = MxEnd
    /\ exc = "none"
    /\ outcome = "ok"
    /\ ret = 0
    /\ pre_function = <<>>
    /\ pre_maxima = <<>>
    /\ last_set = [x \in Args |-> 0]
    /\ nAllocFail = 0
    /\ peer_function = <<>>
    /\ peer_maxima = <<>>
    /\ peer_last_set = [x \in Args |-> 0]
    /\ temp_fun = <<>>
    /\ temp_max = <<>>
    /\ is_max = FALSE
    /\ round_trip = NoTrip

\* the locals of a call go out of scope
DropLocals ==
    /\ it' = 0
    /\ prev_it' = 0
    /\ prev_max_it' = MxEnd
    /\ max_it' = MxEnd
    /\ diff' = FALSE
    /\ maxima_rollback' = <<>>
    /\ omit_it' = 0
    /\ cpy_it' = 0
    /\ left' = MxEnd
    /\ right' = MxEnd
    /\ side' = "none"
    /\ res' = MxEnd

\* the call returns (out = "ok") or lets an exception out
Return(out, rv) ==
    /\ pc' = "idle"
    /\ exc' = "none"
    /\ outcome' = out
    /\ ret' = rv
    /\ last_set' = IF out = "ok" /\ op = "set_value" THEN [last_set EXCEPT ![a] = v]
                   ELSE IF out = "ok" /\ op = "erase" THEN [last_set EXCEPT ![a] = 0]
                   ELSE IF out = "ok" /\ op = "assign" THEN peer_last_set
                   ELSE last_set
    /\ DropLocals
    /\ UNCHANGED call

\* a public call begins
Begin(name, pa, pv, first) ==
    /\ pc = "idle"
    /\ pc' = first
    /\ op' = name
    /\ a' = pa
    /\ v' = pv
    /\ pre_function' = function
    /\ pre_maxima' = maxima
    /\ it' = end(function)
    /\ prev_it' = end(function)
    /\ round_trip' = IF /\ name = "erase" /\ op = "set_value" /\ outcome = "ok"
                         /\ pa = a /\ a \notin {pre_function[i].arg : i \in 1..Len(pre_function)}
                      THEN [valid |-> TRUE, f |-> pre_function, m |-> pre_maxima]
                      ELSE NoTrip
    /\ UNCHANGED <<store, prev_max_it, max_it, diff, maxima_rollback, omit_it,
                   cpy_it, left, right, side, res, exc, ghost, nAllocFail,
                   peer, temp_fun, temp_max, is_max>>

(***************************************************************************)
(* value_at                                                                *)
(***************************************************************************)
value_at_call(pa) == Begin("value_at", pa, 0, "va_find")

\* mutant: the lookup is a lower_bound whose result is not compared with a
value_at_by_lower_bound(f, k) ==
    LET i == lower_bound(f, k)
    IN  IF i = end(f)
        THEN [out |-> "InvalidArg", val |-> 0]
        ELSE [out |-> "ok", val |-> f[i].val]

\* it = function.find(a); if (it == end()) throw InvalidArg(); return it->value();
value_at(f, k) ==
    LET i == find(f, k)
    IN  IF i = end(f)
        THEN [out |-> "InvalidArg", val |-> 0]
        ELSE [out |-> "ok", val |-> f[i].val]

value_at_find ==
    /\ pc = "va_find"
    /\ Return(value_at(function, a).out, value_at(function, a).val)
    /\ UNCHANGED <<store, nAllocFail>>
    /\ UNCHANGED aux

(***************************************************************************)
(* set_value                                                               *)
(***************************************************************************)
set_value_call(pa, pv) == Begin("set_value", pa, pv, "sv_new")

\* point_type new_point(a, v);
set_value_new_point ==
    /\ pc = "sv_new"
    /\ pc' = "sv_lb"
    /\ UNCHANGED <<store, call, locals, exc, ghost, nAllocFail>>
    /\ UNCHANGED aux

\* prev_it = function.lower_bound(a);
set_value_lower_bound ==
    /\ pc = "sv_lb"
    /\ prev_it' = lower_bound(function, a)
    /\ pc' = IF prev_it' # end(function) THEN "sv_find" ELSE "sv_ins"
    /\ UNCHANGED <<store, call, it, prev_max_it, max_it, diff, maxima_rollback,
                   omit_it, cpy_it, left, right, side, res, exc, ghost, nAllocFail>>
    /\ UNCHANGED aux

\* prev_max_it = maxima.find(*prev_it);
set_value_find_prev ==
    /\ pc = "sv_find"
    /\ prev_max_it' = maxima_find(maxima, function[prev_it])
    /\ pc' = "sv_ins"
    /\ UNCHANGED <<store, call, it, prev_it, max_it, diff, maxima_rollback,
                   omit_it, cpy_it, left, right, side, res, exc, ghost, nAllocFail>>
    /\ UNCHANGED aux

\* it = function.insert(prev_it, new_point);
set_value_insert ==
    /\ pc = "sv_ins"
    /\ LET pos == function_insert_pos(function, prev_it, point(a, v))
       IN  /\ function' = InsertAt(function, pos, point(a, v))
           /\ it' = pos
           /\ prev_it' = IF prev_it >= pos THEN prev_it + 1 ELSE prev_it
    /\ pc' = "sv_diff"
    /\ UNCHANGED <<maxima, call, prev_max_it, max_it, diff, maxima_rollback,
                   omit_it, cpy_it, left, right, side, res, exc, ghost, nAllocFail>>
    /\ UNCHANGED aux

\* mutant: the negation of key_comp is missing
set_value_diff_unnegated ==
    /\ pc = "sv_diff"
    /\ diff' = (prev_it # end(function) /\ comp_by_arg(function[it], function[prev_it]))
    /\ omit_it' = IF diff' THEN prev_it ELSE end(function)
    /\ pc' = "um_self"
    /\ UNCHANGED <<store, call, it, prev_it, prev_max_it, max_it, maxima_rollback,
                   cpy_it, left, right, side, res, exc, ghost, nAllocFail>>
    /\ UNCHANGED aux

\* diff = prev_it != end() && !function.key_comp()(*it, *prev_it);
\* update_maxima(it, diff ? prev_it : end(), maxima_rollback);
set_value_diff ==
    /\ pc = "sv_diff"
    /\ diff' = (prev_it # end(function) /\ ~comp_by_arg(function[it], function[prev_it]))
    /\ omit_it' = IF diff' THEN prev_it ELSE end(function)
    /\ pc' = "um_self"
    /\ UNCHANGED <<store, call, it, prev_it, prev_max_it, max_it, maxima_rollback,
                   cpy_it, left, right, side, res, exc, ghost, nAllocFail>>
    /\ UNCHANGED aux

\* mutant: the test of diff is missing, whatever lower_bound found is erased
set_value_finish_no_diff_test ==
    /\ pc = "sv_fin"
    /\ maxima' = IF prev_max_it # MxEnd
                 THEN maxima_erase(maxima, prev_max_it) ELSE maxima
    /\ function' = IF prev_it # end(function)
                   THEN RemoveAt(function, prev_it) ELSE function
    /\ Return("ok", 0)
    /\ UNCHANGED nAllocFail
    /\ UNCHANGED aux

\* mutant: the new point is erased from function instead of the old one
set_value_finish_erases_new ==
    /\ pc = "sv_fin"
    /\ maxima' = IF diff /\ prev_max_it # MxEnd
                 THEN maxima_erase(maxima, prev_max_it) ELSE maxima
    /\ function' = IF diff THEN RemoveAt(function, it) ELSE function
    /\ Return("ok", 0)
    /\ UNCHANGED nAllocFail
    /\ UNCHANGED aux

\* if (diff) { if (prev_max_it != mx_end()) maxima.erase(prev_max_it); function.erase(prev_it); }
set_value_finish ==
    /\ pc = "sv_fin"
    /\ maxima' = IF diff /\ prev_max_it # MxEnd
                 THEN maxima_erase(maxima, prev_max_it) ELSE maxima
    /\ function' = IF diff THEN RemoveAt(function, prev_it) ELSE function
    /\ Return("ok", 0)
    /\ UNCHANGED nAllocFail
    /\ UNCHANGED aux

\* mutant: the handler forgets the point inserted into function
set_value_catch_keeps_point ==
    /\ pc = "sv_catch"
    /\ maxima' = erase_all(maxima, maxima_rollback)
    /\ function' = function
    /\ Return(exc, 0)
    /\ UNCHANGED nAllocFail
    /\ UNCHANGED aux

\* catch (...) { erase the logged entries; if (it != end()) function.erase(it); throw; }
set_value_catch ==
    /\ pc = "sv_catch"
    /\ maxima' = erase_all(maxima, maxima_rollback)
    /\ function' = IF it # end(function) THEN RemoveAt(function, it) ELSE function
    /\ Return(exc, 0)
    /\ UNCHANGED nAllocFail
    /\ UNCHANGED aux

(***************************************************************************)
(* erase                                                                   *)
(***************************************************************************)
erase_call(pa) == Begin("erase", pa, 0, "er_find")

\* it = function.find(a); if (it == end()) return;
erase_find ==
    /\ pc = "er_find"
    /\ LET i == find(function, a)
       IN  IF i = end(function)
           THEN Return("ok", 0)
           ELSE /\ it' = i
                /\ pc' = "er_mfind"
                /\ UNCHANGED <<call, prev_it, prev_max_it, max_it, diff, maxima_rollback,
                               omit_it, cpy_it, left, right, side, res, exc, ghost>>
    /\ UNCHANGED <<store, nAllocFail>>
    /\ UNCHANGED aux

\* max_it = maxima.find(*it); update_maxima(it, it, maxima_rollback);
erase_find_max ==
    /\ pc = "er_mfind"
    /\ max_it' = maxima_find(maxima, function[it])
    /\ omit_it' = it
    /\ pc' = "um_self"
    /\ UNCHANGED <<store, call, it, prev_it, prev_max_it, diff, maxima_rollback,
                   cpy_it, left, right, side, res, exc, ghost, nAllocFail>>
    /\ UNCHANGED aux

\* mutant: function.erase(it) sits inside the if
erase_finish_inside_if ==
    /\ pc = "er_fin"
    /\ function' = IF max_it # MxEnd THEN RemoveAt(function, it) ELSE function
    /\ maxima' = IF max_it # MxEnd THEN maxima_erase(maxima, max_it) ELSE maxima
    /\ Return("ok", 0)
    /\ UNCHANGED nAllocFail
    /\ UNCHANGED aux

\* function.erase(it); if (max_it != mx_end()) maxima.erase(max_it);
erase_finish ==
    /\ pc = "er_fin"
    /\ function' = RemoveAt(function, it)
    /\ maxima' = IF max_it # MxEnd THEN maxima_erase(maxima, max_it) ELSE maxima
    /\ Return("ok", 0)
    /\ UNCHANGED nAllocFail
    /\ UNCHANGED aux

\* catch (...) { erase the logged entries; throw; }
erase_catch ==
    /\ pc = "er_catch"
    /\ maxima' = erase_all(maxima, maxima_rollback)
    /\ Return(exc, 0)
    /\ UNCHANGED <<function, nAllocFail>>
    /\ UNCHANGED aux

(***************************************************************************)
(* update_maxima(it, omit_it, rollback)                                    *)
(***************************************************************************)
\* cpy_it = it; left = right = mx_end(); if (is_local_maximum(it, omit_it))
update_maxima_self ==
    /\ pc = "um_self"
    /\ cpy_it' = it
    /\ left' = MxEnd
    /\ right' = MxEnd
    /\ pc' = IF is_local_maximum(function, it, omit_it) THEN "um_self_ins" ELSE "um_left"
    /\ UNCHANGED <<store, call, it, prev_it, prev_max_it, max_it, diff, maxima_rollback,
                   omit_it, side, res, exc, ghost, nAllocFail>>
    /\ UNCHANGED aux

\* mx_iterator curr = maxima.insert(*it);
update_maxima_insert ==
    /\ pc = "um_self_ins"
    /\ maxima' = maxima_insert(maxima, function[it])
    /\ pc' = "um_self_push"
    /\ UNCHANGED <<function, call, locals, exc, ghost, nAllocFail>>
    /\ UNCHANGED aux

\* rollback.push_back(curr);
update_maxima_push ==
    /\ pc = "um_self_push"
    /\ maxima_rollback' = Append(maxima_rollback, function[it])
    /\ pc' = "um_left"
    /\ UNCHANGED <<store, call, it, prev_it, prev_max_it, max_it, diff,
                   omit_it, cpy_it, left, right, side, res, exc, ghost, nAllocFail>>
    /\ UNCHANGED aux

\* if (safe_decrement(cpy_it)) if (cpy_it != omit_it || safe_decrement(cpy_it)) left = ...
update_maxima_left ==
    /\ pc = "um_left"
    /\ IF cpy_it = 1
       THEN /\ cpy_it' = cpy_it
            /\ pc' = "um_right"
            /\ side' = "none"
       ELSE IF cpy_it - 1 # omit_it
       THEN /\ cpy_it' = cpy_it - 1
            /\ pc' = "sbm_find"
            /\ side' = "left"
       ELSE IF cpy_it - 1 = 1
       THEN /\ cpy_it' = cpy_it - 1
            /\ pc' = "um_right"
            /\ side' = "none"
       ELSE /\ cpy_it' = cpy_it - 2
            /\ pc' = "sbm_find"
            /\ side' = "left"
    /\ UNCHANGED <<store, call, it, prev_it, prev_max_it, max_it, diff, maxima_rollback,
                   omit_it, left, right, res, exc, ghost, nAllocFail>>
    /\ UNCHANGED aux

\* cpy_it = it; if (++cpy_it != end()) if (cpy_it != omit_it || ++cpy_it != end()) right = ...
update_maxima_right ==
    /\ pc = "um_right"
    /\ IF it + 1 = end(function)
       THEN /\ cpy_it' = it + 1
            /\ pc' = "um_erase"
            /\ side' = "none"
       ELSE IF it + 1 # omit_it
       THEN /\ cpy_it' = it + 1
            /\ pc' = "sbm_find"
            /\ side' = "right"
       ELSE IF it + 2 = end(function)
       THEN /\ cpy_it' = it + 2
            /\ pc' = "um_erase"
            /\ side' = "none"
       ELSE /\ cpy_it' = it + 2
            /\ pc' = "sbm_find"
            /\ side' = "right"
    /\ UNCHANGED <<store, call, it, prev_it, prev_max_it, max_it, diff, maxima_rollback,
                   omit_it, left, right, res, exc, ghost, nAllocFail>>
    /\ UNCHANGED aux

\* if (left != mx_end()) maxima.erase(left); if (right != mx_end()) maxima.erase(right);
update_maxima_erase ==
    /\ pc = "um_erase"
    /\ LET m1 == IF left # MxEnd THEN maxima_erase(maxima, left) ELSE maxima
       IN  maxima' = IF right # MxEnd THEN maxima_erase(m1, right) ELSE m1
    /\ pc' = IF op = "set_value" THEN "sv_fin" ELSE "er_fin"
    /\ UNCHANGED <<function, call, locals, exc, ghost, nAllocFail>>
    /\ UNCHANGED aux

(***************************************************************************)
(* stopped_being_maximum(cpy_it, omit_it, rollback)                        *)
(***************************************************************************)
\* the value returned goes to left or to right of update_maxima
stopped_return(r) ==
    /\ left' = IF side = "left" THEN r ELSE left
    /\ right' = IF side = "right" THEN r ELSE right
    /\ pc' = IF side = "left" THEN "um_right" ELSE "um_erase"
    /\ side' = "none"
    /\ res' = MxEnd

\* mx_iterator res = maxima.find(*cpy_it);
stopped_find ==
    /\ pc = "sbm_find"
    /\ res' = maxima_find(maxima, function[cpy_it])
    /\ pc' = "sbm_test"
    /\ UNCHANGED <<store, call, it, prev_it, prev_max_it, max_it, diff, maxima_rollback,
                   omit_it, cpy_it, left, right, side, exc, ghost, nAllocFail>>
    /\ UNCHANGED aux

\* mutant: a neighbour that stopped being a maximum is erased at once
stopped_test_erases_at_once ==
    /\ pc = "sbm_test"
    /\ IF is_local_maximum(function, cpy_it, omit_it)
       THEN /\ maxima' = maxima
            /\ IF res = MxEnd
               THEN /\ pc' = "sbm_ins"
                    /\ UNCHANGED <<left, right, side, res>>
               ELSE stopped_return(MxEnd)
       ELSE /\ maxima' = IF res # MxEnd THEN maxima_erase(maxima, res) ELSE maxima
            /\ stopped_return(MxEnd)
    /\ UNCHANGED <<function, call, it, prev_it, prev_max_it, max_it, diff, maxima_rollback,
                   omit_it, cpy_it, exc, ghost, nAllocFail>>
    /\ UNCHANGED aux

\* if (is_local_maximum(cpy_it, omit_it)) { if (res == mx_end()) ...; return mx_end(); } return res;
stopped_test ==
    /\ pc = "sbm_test"
    /\ IF is_local_maximum(function, cpy_it, omit_it)
       THEN IF res = MxEnd
            THEN /\ pc' = "sbm_ins"
                 /\ UNCHANGED <<left, right, side, res>>
            ELSE stopped_return(MxEnd)
       ELSE stopped_return(res)
    /\ UNCHANGED <<store, call, it, prev_it, prev_max_it, max_it, diff, maxima_rollback,
                   omit_it, cpy_it, exc, ghost, nAllocFail>>
    /\ UNCHANGED aux

\* mx_iterator curr = maxima.insert(*cpy_it);
stopped_insert ==
    /\ pc = "sbm_ins"
    /\ maxima' = maxima_insert(maxima, function[cpy_it])
    /\ pc' = "sbm_push"
    /\ UNCHANGED <<function, call, locals, exc, ghost, nAllocFail>>
    /\ UNCHANGED aux

\* rollback.push_back(curr); return mx_end();
stopped_push ==
    /\ pc = "sbm_push"
    /\ maxima_rollback' = Append(maxima_rollback, function[cpy_it])
    /\ stopped_return(MxEnd)
    /\ UNCHANGED <<store, call, it, prev_it, prev_max_it, max_it, diff,
                   omit_it, cpy_it, exc, ghost, nAllocFail>>
    /\ UNCHANGED aux

(***************************************************************************)
(* Exceptions.  A comparison on A or V may throw wherever one is           *)
(* evaluated; an allocation may fail wherever memory is obtained.  The     *)
(* statement that throws has no effect (the containers' single-element     *)
(* operations and push_back give the strong guarantee).                    *)
(***************************************************************************)
\* the statement at pc evaluates at least one comparison
compares ==
    CASE pc \in {"va_find", "er_find", "sv_lb", "sv_ins"} -> function # <<>>
      [] pc \in {"sv_find", "er_mfind", "um_self_ins", "sbm_find", "sbm_ins"} -> maxima # <<>>
      [] pc = "sv_diff"  -> prev_it # end(function)
      [] pc = "um_self"  -> ilm_compares(function, it, omit_it)
      [] pc = "sbm_test" -> ilm_compares(function, cpy_it, omit_it)
      [] OTHER -> FALSE

\* the statement at pc allocates: make_shared, a tree node, or vector growth
allocates ==
    pc \in {"sv_new", "sv_ins", "um_self_ins", "um_self_push", "sbm_ins", "sbm_push"}

raise(kind) ==
    IF op = "value_at"
    THEN Return(kind, 0)
    ELSE /\ pc' = IF op = "set_value" THEN "sv_catch" ELSE "er_catch"
         /\ exc' = kind
         /\ UNCHANGED <<call, locals, ghost>>

comparison_throws ==
    /\ compares
    /\ raise("cmp")
    /\ UNCHANGED <<store, nAllocFail>>
    /\ UNCHANGED aux

allocation_fails ==
    /\ allocates
    /\ nAllocFail < MaxAllocFail
    /\ nAllocFail' = nAllocFail + 1
    /\ raise("alloc")
    /\ UNCHANGED store
    /\ UNCHANGED aux

(***************************************************************************)
(* Specifications.  Spec: calls may fail by a throwing comparison.         *)
(* SpecAlloc: allocations may fail as well.                                *)
(***************************************************************************)
Step ==
    \/ value_at_find
    \/ set_value_new_point
    \/ set_value_lower_bound
    \/ set_value_find_prev
    \/ set_value_insert
    \/ set_value_diff
    \/ set_value_finish
    \/ set_value_catch
    \/ erase_find
    \/ erase_find_max
    \/ erase_finish
    \/ erase_catch
    \/ update_maxima_self
    \/ update_maxima_insert
    \/ update_maxima_push
    \/ update_maxima_left
    \/ update_maxima_right
    \/ update_maxima_erase
    \/ stopped_find
    \/ stopped_test
    \/ stopped_insert
    \/ stopped_push

Next ==
    \/ \E pa \in Args : value_at_call(pa)
    \/ \E pa \in Args, pv \in Vals : set_value_call(pa, pv)
    \/ \E pa \in Args : erase_call(pa)
    \/ Step
    \/ comparison_throws

NextAlloc ==
    \/ Next
    \/ allocation_fails

Spec == Init /\ [][Next]_vars

SpecAlloc == Init /\ [][NextAlloc]_vars

(***************************************************************************)
(* is_local_maximum called directly on any point store it can meet         *)
(***************************************************************************)
\* the point stores is_local_maximum is called on: ascending by argument,
\* with at most one pair of points of equal argument (set_value's new point
\* in front of the one it replaces)
OrderedSeqs ==
    {f \in UNION {[1..n -> Points] : n \in 1..MaxPoints} :
        /\ \A i \in 1..(Len(f) - 1) : ~comp_by_arg(f[i + 1], f[i])
        /\ Cardinality({i \in 1..(Len(f) - 1) : f[i].arg = f[i + 1].arg}) <= 1}

InitILM ==
    /\ function \in OrderedSeqs
    /\ it \in 1..Len(function)
    /\ omit_it \in 1..end(function)
    /\ pc = "ilm"
    /\ op = "is_local_maximum"
    /\ maxima = <<>>
    /\ a = 0
    /\ v = 0
    /\ prev_it = 0
    /\ prev_max_it = MxEnd
    /\ max_it = MxEnd
    /\ diff = FALSE
    /\ maxima_rollback = <<>>
    /\ cpy_it = 0
    /\ left = MxEnd
    /\ right = MxEnd
    /\ side = "none"
    /\ res = MxEnd
    /\ exc = "none"
    /\ outcome = "ok"
    /\ ret = 0
    /\ pre_function = <<>>
    /\ pre_maxima = <<>>
    /\ last_set = [x \in Args |-> 0]
    /\ nAllocFail = 0
    /\ peer_function = <<>>
    /\ peer_maxima = <<>>
    /\ peer_last_set = [x \in Args |-> 0]
    /\ temp_fun = <<>>
    /\ temp_max = <<>>
    /\ is_max = FALSE
    /\ round_trip = NoTrip

\* bool is_local_maximum(iterator it, iterator omit_it)
is_local_maximum_call ==
    /\ pc = "ilm"
    /\ pc' = "ilm_done"
    /\ is_max' = is_local_maximum(function, it, omit_it)
    /\ UNCHANGED <<store, call, locals, exc, ghost, nAllocFail, peer, temp_fun,
                   temp_max, round_trip>>

NextILM == is_local_maximum_call

SpecILM == InitILM /\ [][NextILM]_vars

(***************************************************************************)
(* Copy construction and copy assignment, with a second object             *)
(***************************************************************************)
\* FunctionMaxima(const FunctionMaxima &fun) = default, a new object from *this
copy_call == Begin("copy", 0, 0, "cc_fun")

\* the member function is copied
copy_function ==
    /\ pc = "cc_fun"
    /\ pc' = "cc_max"
    /\ temp_fun' = function
    /\ UNCHANGED <<store, call, locals, exc, ghost, nAllocFail, peer, temp_max,
                   is_max, round_trip>>

\* the member maxima is copied and the new object exists
copy_maxima ==
    /\ pc = "cc_max"
    /\ peer_function' = temp_fun
    /\ peer_maxima' = maxima
    /\ peer_last_set' = last_set
    /\ temp_fun' = <<>>
    /\ Return("ok", 0)
    /\ UNCHANGED <<store, nAllocFail, temp_max, is_max, round_trip>>

\* *this = fun, fun being the second object
assign_call == Begin("assign", 0, 0, "as_test")

\* *this = *this
assign_self_call == Begin("assign_self", 0, 0, "as_test")

\* if (this != &fun) { ... } return *this;
assign_test ==
    /\ pc = "as_test"
    /\ IF op = "assign_self"
       THEN /\ Return("ok", 0)
            /\ UNCHANGED <<store, nAllocFail, aux>>
       ELSE /\ pc' = "as_copy_fun"
            /\ UNCHANGED <<store, call, locals, exc, ghost, nAllocFail, aux>>

\* mutant: each member is swapped in as soon as its copy exists
assign_next_swaps_at_once(at) ==
    CASE at = "as_copy_fun" -> "as_swap_fun"
      [] at = "as_swap_fun" -> "as_copy_max"
      [] at = "as_copy_max" -> "as_swap_max"
      [] at = "as_swap_max" -> "idle"

\* the order of the four statements of operator=
assign_next(at) ==
    CASE at = "as_copy_fun" -> "as_copy_max"
      [] at = "as_copy_max" -> "as_swap_fun"
      [] at = "as_swap_fun" -> "as_swap_max"
      [] at = "as_swap_max" -> "idle"

\* auto temp_fun = fun.function;
assign_copy_function ==
    /\ pc = "as_copy_fun"
    /\ pc' = assign_next(pc)
    /\ temp_fun' = peer_function
    /\ UNCHANGED <<store, call, locals, exc, ghost, nAllocFail, peer, temp_max,
                   is_max, round_trip>>

\* auto temp_max = fun.maxima;
assign_copy_maxima ==
    /\ pc = "as_copy_max"
    /\ pc' = assign_next(pc)
    /\ temp_max' = peer_maxima
    /\ UNCHANGED <<store, call, locals, exc, ghost, nAllocFail, peer, temp_fun,
                   is_max, round_trip>>

\* function.swap(temp_fun);
assign_swap_function ==
    /\ pc = "as_swap_fun"
    /\ pc' = assign_next(pc)
    /\ function' = temp_fun
    /\ temp_fun' = function
    /\ UNCHANGED <<maxima, call, locals, exc, ghost, nAllocFail, peer, temp_max,
                   is_max, round_trip>>

\* maxima.swap(temp_max); } return *this;  -- the temporaries are destroyed
assign_swap_maxima ==
    /\ pc = "as_swap_max"
    /\ assign_next(pc) = "idle"
    /\ maxima' = temp_max
    /\ temp_fun' = <<>>
    /\ temp_max' = <<>>
    /\ Return("ok", 0)
    /\ UNCHANGED <<function, nAllocFail, peer, is_max, round_trip>>

\* copying a container allocates; the copies made so far are destroyed and
\* std::bad_alloc leaves the call
copy_fails ==
    /\ pc \in {"cc_fun", "cc_max", "as_copy_fun", "as_copy_max"}
    /\ temp_fun' = <<>>
    /\ temp_max' = <<>>
    /\ Return("alloc", 0)
    /\ UNCHANGED <<store, nAllocFail, peer, is_max, round_trip>>

CopyStep ==
    \/ copy_function
    \/ copy_maxima
    \/ assign_test
    \/ assign_copy_function
    \/ assign_copy_maxima
    \/ assign_swap_function
    \/ assign_swap_maxima

NextCopy ==
    \/ \E pa \in CopyArgs : value_at_call(pa)
    \/ \E pa \in CopyArgs, pv \in CopyVals : set_value_call(pa, pv)
    \/ \E pa \in CopyArgs : erase_call(pa)
    \/ copy_call
    \/ assign_call
    \/ assign_self_call
    \/ Step
    \/ CopyStep
    \/ comparison_throws
    \/ copy_fails

SpecCopy == Init /\ [][NextCopy]_vars

(***************************************************************************)
(* Vocabulary of the properties                                            *)
(***************************************************************************)
AtRest == pc = "idle"

Listed(s) == {s[i] : i \in 1..Len(s)}

Domain(f) == {f[i].arg : i \in 1..Len(f)}

Mutated == op \in {"set_value", "erase"}

Succeeded == AtRest /\ outcome = "ok"

\* the point at position i is not exceeded by an argument-order neighbour
NotExceeded(f, i) ==
    /\ (i = 1 \/ f[i - 1].val <= f[i].val)
    /\ (i = Len(f) \/ f[i + 1].val <= f[i].val)

LocalMaxima(f) == {f[i] : i \in {j \in 1..Len(f) : NotExceeded(f, j)}}

StateRestored == function = pre_function /\ maxima = pre_maxima

\* the nearest arguments remaining on each side of k (0: none)
LeftOf(f, k) ==
    IF \E x \in Domain(f) : x < k
    THEN CHOOSE x \in Domain(f) : x < k /\ \A y \in Domain(f) : y < k => y <= x
    ELSE 0

RightOf(f, k) ==
    IF \E x \in Domain(f) : x > k
    THEN CHOOSE x \in Domain(f) : x > k /\ \A y \in Domain(f) : y > k => y >= x
    ELSE 0

(***************************************************************************)
(* C1 - Invariant I1: between calls the maxima listing holds exactly the   *)
(* points of the point listing that neither argument-order neighbour       *)
(* exceeds: none other is listed and none of them is missing.              *)
(***************************************************************************)
C1_MaximaAreLocalMaxima == AtRest => Listed(maxima) = LocalMaxima(function)

(***************************************************************************)
(* C2 - a set_value or erase that ends by a throwing comparison leaves     *)
(* the point listing, the maxima listing and hence the size as they were   *)
(* when the call began.                                                    *)
(***************************************************************************)
C2_ComparisonFailureIsAtomic ==
    (AtRest /\ Mutated /\ outcome = "cmp") => StateRestored

\* a set_value replacing a maximum among three points failed by a comparison
C2_Witness ==
    /\ AtRest /\ op = "set_value" /\ outcome = "cmp"
    /\ Len(pre_function) = 3
    /\ a = 2 /\ v = 2
    /\ point(2, 1) \in Listed(pre_maxima)

(***************************************************************************)
(* C3 - a set_value or erase that ends by a failed allocation leaves the   *)
(* point listing and the maxima listing as they were when the call began.  *)
(***************************************************************************)
C3_AllocationFailureIsAtomic ==
    (AtRest /\ Mutated /\ outcome = "alloc") => StateRestored

(***************************************************************************)
(* C4 - round trip: after a successful set_value(a, v), value_at(a)        *)
(* returns v.                                                              *)
(***************************************************************************)
C4_RoundTrip ==
    (Succeeded /\ op = "set_value") =>
        value_at(function, a) = [out |-> "ok", val |-> v]

\* a was present with another value before the call
C4_Witness ==
    /\ Succeeded /\ op = "set_value"
    /\ \E i \in 1..Len(pre_function) :
           pre_function[i].arg = a /\ pre_function[i].val # v
    /\ Len(function) = 3

(***************************************************************************)
(* C5 - between calls no two points of the point store share an argument,  *)
(* size() is the number of distinct arguments, and a successful set_value  *)
(* raises the size by one when a was absent and by nothing when present.   *)
(***************************************************************************)
C5_UniqueArguments ==
    AtRest =>
        /\ \A i, j \in 1..Len(function) : i # j => function[i].arg # function[j].arg
        /\ Len(function) = Cardinality(Domain(function))
        /\ (outcome = "ok" /\ op = "set_value") =>
               Len(function) = Len(pre_function)
                               + (IF a \in Domain(pre_function) THEN 0 ELSE 1)

\* set_value on a present argument, between two other points
C5_Witness ==
    /\ Succeeded /\ op = "set_value"
    /\ a = 2 /\ a \in Domain(pre_function)
    /\ Len(pre_function) = 3 /\ Len(function) = 3

(***************************************************************************)
(* C6 - after a successful erase(a), value_at(a) raises InvalidArg and the *)
(* size is one less than before if a was present, the same if absent.      *)
(***************************************************************************)
C6_EraseEffect ==
    (Succeeded /\ op = "erase") =>
        /\ value_at(function, a).out = "InvalidArg"
        /\ Len(function) = Len(pre_function)
                           - (IF a \in Domain(pre_function) THEN 1 ELSE 0)

\* a present point that is not a maximum was erased
C6_Witness ==
    /\ Succeeded /\ op = "erase"
    /\ a \in Domain(pre_function)
    /\ \A p \in Listed(pre_maxima) : p.arg # a
    /\ Len(function) = 2

(***************************************************************************)
(* C7 - erase(a) of an argument that is not in the domain leaves the point *)
(* listing, the maxima listing and the size unchanged; so a second         *)
(* erase(a) right after a first changes nothing.                           *)
(***************************************************************************)
C7_EraseAbsentIsNoOp ==
    /\ (AtRest /\ op = "erase" /\ a \notin Domain(pre_function)) => StateRestored
    /\ (Succeeded /\ op = "erase") => a \notin Domain(function)

\* an absent argument with a greater one present was erased from a non-empty function
C7_Witness ==
    /\ Succeeded /\ op = "erase"
    /\ a \notin Domain(pre_function)
    /\ \E x \in Domain(pre_function) : x > a
    /\ pre_maxima # <<>>

(***************************************************************************)
(* C8 - value_at(a) ends with InvalidArg exactly when a is not in the      *)
(* domain, otherwise returns the value last set at a; however it ends,     *)
(* also by a throwing comparison, both listings are unchanged.             *)
(***************************************************************************)
C8_ValueAt ==
    (AtRest /\ op = "value_at") =>
        /\ StateRestored
        /\ outcome # "cmp" =>
               /\ (outcome = "InvalidArg") <=> (last_set[a] = 0)
               /\ (outcome = "ok") => (ret = last_set[a])

\* value_at of an absent argument below a present one raised InvalidArg
C8_Witness ==
    /\ AtRest /\ op = "value_at" /\ outcome = "InvalidArg"
    /\ last_set[a] = 0
    /\ \E x \in Args : x > a /\ last_set[x] # 0

(***************************************************************************)
(* C9 - between calls the maxima listing is sorted by value descending,    *)
(* ties by argument ascending, and no argument appears in it twice.        *)
(***************************************************************************)
C9_MaximaSortedAndUnique ==
    AtRest =>
        /\ \A i, j \in 1..Len(maxima) : i < j =>
               \/ maxima[j].val < maxima[i].val
               \/ (maxima[j].val = maxima[i].val /\ maxima[i].arg < maxima[j].arg)
        /\ \A i, j \in 1..Len(maxima) : i # j => maxima[i].arg # maxima[j].arg

(***************************************************************************)
(* C10 - locality: a successful set_value(a, v) or erase(a) changes the    *)
(* maxima membership of no point other than the point at a and the         *)
(* nearest remaining point on each side of a.                              *)
(***************************************************************************)
C10_Locality ==
    (Succeeded /\ Mutated) =>
        \A p \in Points :
            p.arg \notin {a, LeftOf(pre_function, a), RightOf(pre_function, a)} =>
                (p \in Listed(maxima) <=> p \in Listed(pre_maxima))

\* (1,1),(2,1) both maxima; set_value(3,2) demotes point 2 and keeps point 1
C10_Witness ==
    /\ Succeeded /\ op = "set_value" /\ a = 3 /\ v = 2
    /\ pre_function = <<point(1, 1), point(2, 1)>>
    /\ pre_maxima = <<point(1, 1), point(2, 1)>>
    /\ maxima = <<point(3, 2), point(1, 1)>>

(***************************************************************************)
(* More vocabulary                                                         *)
(***************************************************************************)
\* how many entries of s equal x
Count(s, x) == Cardinality({i \in 1..Len(s) : s[i] = x})

\* the value at argument k in f (0: none)
ValueIn(f, k) ==
    IF k \in Domain(f) THEN (CHOOSE p \in Listed(f) : p.arg = k).val ELSE 0

StrictlyAscending(f) == \A i, j \in 1..Len(f) : i < j => f[i].arg < f[j].arg

InSetValue == op = "set_value" /\ pc \in {"sv_diff", "um_self", "um_self_ins",
    "um_self_push", "um_left", "um_right", "um_erase", "sbm_find", "sbm_test",
    "sbm_ins", "sbm_push", "sv_fin"}

(***************************************************************************)
(* C11 - a successful set_value(a, v) on a present argument: an adjacent   *)
(* neighbour that was listed as a maximum and whose value is less than v   *)
(* is no longer listed, (a, v) is listed iff it is a local maximum, and no *)
(* entry with the old value at a remains.                                  *)
(***************************************************************************)
C11_ReplacementDemotesNeighbour ==
    LET demoted == {p \in Listed(pre_function) :
                       /\ p.arg \in {LeftOf(pre_function, a), RightOf(pre_function, a)}
                       /\ p \in Listed(pre_maxima)
                       /\ p.val < v}
        old == ValueIn(pre_function, a)
    IN  (Succeeded /\ op = "set_value" /\ a \in Domain(pre_function) /\ demoted # {}) =>
            /\ \A p \in demoted : p \notin Listed(maxima)
            /\ point(a, v) \in Listed(maxima) <=> point(a, v) \in LocalMaxima(function)
            /\ old # v => point(a, old) \notin Listed(maxima)

(***************************************************************************)
(* C12  Plateau handling, as stated: between calls, whenever three points  *)
(* consecutive in argument order have equal values, all three are in the   *)
(* maxima listing.                                                         *)
(***************************************************************************)
C12_Plateau ==
    AtRest =>
        \A i \in 1..(Len(function) - 2) :
            (function[i].val = function[i + 1].val
             /\ function[i + 1].val = function[i + 2].val) =>
                {function[i], function[i + 1], function[i + 2]} \subseteq Listed(maxima)

(***************************************************************************)
(* C12  Plateau handling, amended: between calls, whenever three points    *)
(* consecutive in argument order have equal values, the middle one is in   *)
(* the maxima listing, and each outer one is in it when it has no outward  *)
(* neighbour or that neighbour's value does not exceed the plateau's.      *)
(***************************************************************************)
C12_PlateauAmended ==
    AtRest =>
        \A i \in 1..(Len(function) - 2) :
            (function[i].val = function[i + 1].val
             /\ function[i + 1].val = function[i + 2].val) =>
                /\ function[i + 1] \in Listed(maxima)
                /\ (i = 1 \/ function[i - 1].val <= function[i].val) =>
                        function[i] \in Listed(maxima)
                /\ (i + 2 = Len(function) \/ function[i + 3].val <= function[i + 2].val) =>
                        function[i + 2] \in Listed(maxima)

\* a plateau of three behind a higher point: its first point is exceeded by
\* its outward neighbour, the other two are listed
C12_Witness ==
    /\ Succeeded /\ op = "set_value"
    /\ function = <<point(1, 2), point(2, 1), point(3, 1), point(4, 1)>>
    /\ maxima = <<point(1, 2), point(3, 1), point(4, 1)>>

(***************************************************************************)
(* C13 - between calls: a function of exactly one point lists exactly that *)
(* point as maximum; erasing the last point empties both listings; the     *)
(* maxima listing is empty iff the point listing is.                       *)
(***************************************************************************)
C13_SinglePointAndEmptiness ==
    AtRest =>
        /\ Len(function) = 1 => maxima = function
        /\ (outcome = "ok" /\ op = "erase" /\ Len(pre_function) = 1
            /\ a \in Domain(pre_function)) => (function = <<>> /\ maxima = <<>>)
        /\ (maxima = <<>>) <=> (function = <<>>)

(***************************************************************************)
(* C15 - removals come last: while a statement of set_value or erase that  *)
(* can throw (a comparison, an allocation, a rollback-log append) is still *)
(* to run, every maxima entry and every point present when the call began  *)
(* is still there.                                                         *)
(***************************************************************************)
C15_RemovalsComeLast ==
    (Mutated /\ (compares \/ allocates)) =>
        \A p \in Points :
            /\ Count(maxima, p) >= Count(pre_maxima, p)
            /\ Count(function, p) >= Count(pre_function, p)

\* both neighbours of the new point were demoted and are gone; set_value is about to finish
C15_Witness ==
    /\ pc = "sv_fin" /\ op = "set_value"
    /\ left # MxEnd /\ right # MxEnd
    /\ Count(pre_maxima, left) = 1 /\ Count(maxima, left) = 0
    /\ Count(pre_maxima, right) = 1 /\ Count(maxima, right) = 0

(***************************************************************************)
(* C17 - transient placement in set_value: when a is present, the new      *)
(* point sits immediately before the old point of the same argument, the   *)
(* old point is the omitted one, and on success exactly the old point has  *)
(* left the point store and the maxima index; when a is absent nothing is  *)
(* omitted and the lower_bound successor stays.                            *)
(***************************************************************************)
C17_TransientPlacement ==
    /\ (InSetValue /\ a \in Domain(pre_function)) =>
           /\ function[it] = point(a, v)
           /\ prev_it = it + 1
           /\ function[prev_it] = point(a, ValueIn(pre_function, a))
           /\ RemoveAt(function, it) = pre_function
           /\ pc # "sv_diff" => (diff /\ omit_it = prev_it)
    /\ (InSetValue /\ a \notin Domain(pre_function)) =>
           /\ function[it] = point(a, v)
           /\ RemoveAt(function, it) = pre_function
           /\ pc # "sv_diff" => (~diff /\ omit_it = end(function))
    /\ (Succeeded /\ op = "set_value") =>
           /\ Len(function) = Len(pre_function)
                              + (IF a \in Domain(pre_function) THEN 0 ELSE 1)
           /\ \A i \in 1..Len(function) :
                  function[i] = IF function[i].arg = a THEN point(a, v)
                                ELSE point(function[i].arg,
                                           ValueIn(pre_function, function[i].arg))
           /\ \A w \in Vals \ {v} :
                  Count(maxima, point(a, w)) =
                      IF w = ValueIn(pre_function, a) /\ Count(pre_maxima, point(a, w)) > 0
                      THEN Count(pre_maxima, point(a, w)) - 1
                      ELSE Count(pre_maxima, point(a, w))

\* the old point, a maximum, is still in both containers next to the new one
C17_Witness ==
    /\ op = "set_value" /\ pc = "um_erase"
    /\ a = 2 /\ v = 1
    /\ function = <<point(1, 1), point(2, 1), point(2, 2), point(3, 1)>>
    /\ it = 2 /\ prev_it = 3 /\ omit_it = 3
    /\ prev_max_it = point(2, 2)

(***************************************************************************)
(* C18 - frame on the point store: a successful set_value(a, v) or         *)
(* erase(a) changes neither the presence nor the value of any argument     *)
(* other than a, and the point listing stays strictly ascending.           *)
(***************************************************************************)
C18_PointStoreFrame ==
    (Succeeded /\ Mutated) =>
        /\ \A b \in Args \ {a} : value_at(function, b) = value_at(pre_function, b)
        /\ StrictlyAscending(function)

\* an absent argument was set between two present ones
C18_Witness ==
    /\ Succeeded /\ op = "set_value" /\ a = 2
    /\ Domain(pre_function) = {1, 3}
    /\ Domain(function) = {1, 2, 3}

(***************************************************************************)
(* C19 - idempotent set_value: a successful set_value(a, v) when a already *)
(* has the value v leaves the point listing, the maxima listing and the    *)
(* size as they were; so a second set_value(a, v) changes nothing.         *)
(***************************************************************************)
C19_SetValueIdempotent ==
    (Succeeded /\ op = "set_value" /\ point(a, v) \in Listed(pre_function)) =>
        StateRestored

(***************************************************************************)
(* C14  Copy independence and atomic assignment: after a successful copy   *)
(* construction or copy assignment the copy has the point listing and the  *)
(* maxima listing of the source, and the source is as it was; a            *)
(* self-assignment changes nothing; an assignment or copy that fails while *)
(* the replacement is built leaves the point listing and the maxima        *)
(* listing of the target both unchanged; and no step of value_at,          *)
(* set_value or erase on one object changes the other object, in either    *)
(* role (the second object is the copy after a copy construction and the   *)
(* source after an assignment).                                            *)
(***************************************************************************)
C14_CopyAndAssign ==
    /\ []((Succeeded /\ op = "copy") =>
            (peer_function = function /\ peer_maxima = maxima /\ StateRestored))
    /\ []((Succeeded /\ op = "assign") =>
            (function = peer_function /\ maxima = peer_maxima))
    /\ []((Succeeded /\ op = "assign_self") => StateRestored)
    /\ []((AtRest /\ op \in {"copy", "assign"} /\ outcome = "alloc") => StateRestored)
    /\ []((op \in {"copy", "assign"} /\ ~AtRest) =>
            \/ StateRestored
            \/ pc = "as_swap_max" /\ function = peer_function /\ temp_max = peer_maxima)
    /\ [][(peer_function' # peer_function \/ peer_maxima' # peer_maxima) =>
            (op = "copy" /\ pc = "cc_max")]_vars

\* an assignment failed while copying the maxima of a source that differs
\* from the target in both listings
C14_Witness ==
    /\ AtRest /\ op = "assign" /\ outcome = "alloc"
    /\ peer_function # <<>> /\ peer_maxima # <<>>
    /\ function # peer_function /\ maxima # peer_maxima
    /\ function # <<>>

(***************************************************************************)
(* C16  Omission predicate: on every ordered point store, for every target *)
(* position and every omitted position (or none, the end position),        *)
(* is_local_maximum returns false when the target is the omitted position, *)
(* and otherwise the plain local-maximum test of the target on the store   *)
(* with the omitted position removed, whether the omitted point is first,  *)
(* last, adjacent to the target or not.                                    *)
(***************************************************************************)
C16_OmissionPredicate ==
    pc = "ilm_done" =>
        is_max = IF it = omit_it THEN FALSE
                 ELSE IF omit_it = end(function) THEN NotExceeded(function, it)
                 ELSE NotExceeded(RemoveAt(function, omit_it),
                                  IF omit_it < it THEN it - 1 ELSE it)

\* the omitted point is the first one, it exceeds the target next to it, and
\* the target is a local maximum of what remains
C16_Witness ==
    /\ pc = "ilm_done"
    /\ omit_it = 1 /\ it = 2 /\ Len(function) >= 3
    /\ function[2].val < function[1].val
    /\ is_max

(***************************************************************************)
(* C20  Insert-then-erase round trip: for an argument a outside the        *)
(* domain, a successful set_value(a, v) followed at once by a successful   *)
(* erase(a) restores the point listing (hence the size) and the maxima     *)
(* listing to what they were before the set_value.                         *)
(***************************************************************************)
C20_InsertEraseRoundTrip ==
    (Succeeded /\ op = "erase" /\ round_trip.valid) =>
        /\ function = round_trip.f
        /\ maxima = round_trip.m
====
